---------------------------- MODULE Spec2Model ----------------------------
(***************************************************************************)
(* A model of wpilibc/athena/src/AnalogGyro.cpp: the AnalogGyro object,    *)
(* its five constructors, InitGyro, Calibrate and the public operations,   *)
(* driving an accumulating analog channel (AnalogInput).                   *)
(*                                                                         *)
(* Numbers.  A C++ float is a binary32 value, kept as a record             *)
(* [cls, m, e] meaning m * 2^e (m odd or zero), or a NaN or an infinity.   *)
(* Division, multiplication and subtraction of floats round to 24          *)
(* significant bits, ties to even, as the hardware does.  A C++ double     *)
(* expression is kept as the exact rational [n, d] it denotes: every       *)
(* quantity of the model has far fewer than 53 significant bits.           *)
(* Conversions to an integer type truncate toward zero; a conversion whose *)
(* operand is not finite or does not fit has no defined result and is a    *)
(* choice among representative values.                                     *)
(***************************************************************************)
EXTENDS Integers, Sequences, FiniteSets, TLC

VARIABLES
  pc,         \* where the object's construction stands
  args,       \* the constructor that ran and its arguments
  m_analog,   \* the stored channel reference: "chan" or "null"
  m_center,   \* uint32_t m_center
  m_offset,   \* float m_offset
  m_voltsPerDegreePerSecond,  \* float m_voltsPerDegreePerSecond
  fatal,      \* the error status of the object (StatusIsFatal)
  chan,       \* the registers of the analog channel
  log,        \* every call made on the channel and every Wait, in order
  nOps,       \* number of public operations called so far
  last        \* the last public operation: its name, argument and result

vars == <<pc, args, m_analog, m_center, m_offset, m_voltsPerDegreePerSecond,
          fatal, chan, log, nOps, last>>

gyro == <<m_analog, m_center, m_offset, m_voltsPerDegreePerSecond, fatal>>

-----------------------------------------------------------------------------
(* Bounds of the model *)

\* public operations called on the object
MaxOps == 2

\* conversions the accumulator counts between two resets once constructed
MaxSamples == 1

\* conversions in the calibration window
MaxCalibrationSamples == 3

-----------------------------------------------------------------------------
(* Exact rationals *)

Abs(x) == IF x < 0 THEN -x ELSE x

Sign(x) == IF x < 0 THEN -1 ELSE 1

RECURSIVE GCD(_, _)
GCD(a, b) == IF b = 0 THEN a ELSE GCD(b, a % b)

Rat(n, d) ==
  LET g == GCD(Abs(n), Abs(d))
  IN  [n |-> Sign(d) * (n \div g), d |-> Abs(d) \div g]

RatInt(i) == [n |-> i, d |-> 1]

RatMul(a, b) ==
  LET g1 == GCD(Abs(a.n), b.d)
      g2 == GCD(Abs(b.n), a.d)
  IN  [n |-> (a.n \div g1) * (b.n \div g2), d |-> (a.d \div g2) * (b.d \div g1)]

RatDiv(a, b) == RatMul(a, Rat(b.d, b.n))

RatAdd(a, b) == Rat(a.n * b.d + b.n * a.d, a.d * b.d)

RatSub(a, b) == Rat(a.n * b.d - b.n * a.d, a.d * b.d)

\* Conversion of a rational to an integer type: truncation toward zero.
RatTrunc(a) == Sign(a.n) * (Abs(a.n) \div a.d)

-----------------------------------------------------------------------------
(* binary32 arithmetic *)

TwoP23 == 2^23

TwoP24 == 2^24

FNaN == [cls |-> "nan", m |-> 0, e |-> 0]

FInf(s) == [cls |-> "inf", m |-> s, e |-> 0]

RECURSIVE F32Norm(_, _)
F32Norm(m, e) ==
  IF m = 0 THEN [cls |-> "finite", m |-> 0, e |-> 0]
  ELSE IF m % 2 = 0 THEN F32Norm(m \div 2, e + 1)
  ELSE [cls |-> "finite", m |-> m, e |-> e]

\* q has more than 24 bits: drop low bits, round to nearest, ties to even.
RECURSIVE ShiftDown(_, _, _)
ShiftDown(q, sticky, e) ==
  IF q < 2 * TwoP24
  THEN LET h  == q \div 2
           up == (q % 2 = 1) /\ (sticky \/ h % 2 = 1)
       IN  <<IF up THEN h + 1 ELSE h, e + 1>>
  ELSE ShiftDown(q \div 2, sticky \/ (q % 2 = 1), e + 1)

\* q + r/d has fewer than 24 bits before the point: long division, then round.
RECURSIVE ShiftUp(_, _, _, _)
ShiftUp(q, r, d, e) ==
  IF r = 0 THEN <<q, e>>
  ELSE IF q >= TwoP23
  THEN LET up == (2 * r > d) \/ (2 * r = d /\ q % 2 = 1)
       IN  <<IF up THEN q + 1 ELSE q, e>>
  ELSE ShiftUp(2 * q + (IF 2 * r >= d THEN 1 ELSE 0), (2 * r) % d, d, e - 1)

\* The binary32 value nearest to n/d (d > 0).
F32Round(n, d) ==
  LET a  == Abs(n)
      q  == a \div d
      r  == a % d
      me == IF q >= TwoP24 THEN ShiftDown(q, r # 0, 0) ELSE ShiftUp(q, r, d, 0)
  IN  F32Norm(Sign(n) * me[1], me[2])

\* (float)i for an integer i
F32FromInt(i) == F32Round(i, 1)

F32FromRat(a) == F32Round(a.n, a.d)

\* x / y for floats holding integers (the only quotient the program takes)
F32Div(x, y) ==
  IF x.cls = "finite" /\ y.cls = "finite" /\ y.m # 0
  THEN F32Round(x.m * 2^x.e, y.m * 2^y.e)
  ELSE IF x.cls = "finite" /\ y.cls = "finite" /\ x.m # 0
  THEN FInf(Sign(x.m))
  ELSE FNaN

F32Mul(x, y) ==
  IF x.cls = "finite" /\ y.cls = "finite"
  THEN LET r == F32Round(x.m * y.m, 1)
       IN  F32Norm(r.m, r.e + x.e + y.e)
  ELSE FNaN

F32Sub(x, y) ==
  IF x.cls = "finite" /\ y.cls = "finite"
  THEN LET e == IF x.e < y.e THEN x.e ELSE y.e
           r == F32Round(x.m * 2^(x.e - e) - y.m * 2^(y.e - e), 1)
       IN  F32Norm(r.m, r.e + e)
  ELSE IF x.cls = "inf" /\ y.cls = "finite" THEN x
  ELSE FNaN

\* The exact rational a finite float denotes (its exponent is never positive
\* beyond the integers of the model, never below -30).
F32ToRat(x) == IF x.e >= 0 THEN RatInt(x.m * 2^x.e) ELSE Rat(x.m, 2^(-x.e))

\* A finite float truncated toward zero.
F32Trunc(x) ==
  IF x.e >= 0 THEN x.m * 2^x.e
  ELSE IF -x.e > 30 THEN 0
  ELSE Sign(x.m) * (Abs(x.m) \div 2^(-x.e))

\* What a conversion with no defined result may yield.
Indeterminate == {0, 4711}

-----------------------------------------------------------------------------
(* Program constants.  Lines 18-22 of AnalogGyro.cpp define the class       *)
(* constants; their values are those of the class declaration.              *)

kOversampleBits == 10

kAverageBits == 0

kSamplesPerSecond == 50

\* kCalibrationSampleTime, 5.0 s, in milliseconds
kCalibrationSampleTime == 5000

\* the argument of InitGyro's Wait(0.1), in milliseconds
kSettleTime == 100

kDefaultVoltsPerDegreePerSecond == Rat(7, 1000)

\* the 1e9 of the nanovolt conversions (1e-9 is its reciprocal)
Nano == 1000000000

-----------------------------------------------------------------------------
(* Inputs *)

\* The constructors: by channel index, by raw pointer, by shared pointer, and
\* the two with preset center and offset.
Variants == {"index", "pointer", "shared", "indexPreset", "sharedPreset"}

PresetVariants == {"indexPreset", "sharedPreset"}

\* The constructor whose body runs: the constructors by index and by raw
\* pointer delegate to the one by shared pointer.
Delegate(variant) == IF variant \in {"index", "pointer"} THEN "shared" ELSE variant

\* A channel is absent, an accumulator channel, or an analog input without
\* an accumulator.  A channel built from an index always exists.
ChannelKinds(variant) ==
  IF variant \in {"index", "indexPreset"}
  THEN {"accumulator", "plain"}
  ELSE {"null", "accumulator", "plain"}

\* LSB weights a channel may report, in nanovolts.
LsbWeights == {1000, Nano}

\* Raw conversions the channel may produce.
RawSamples == {10, 2115}

PresetCenters == {100}

PresetOffsets == {F32Round(1, 4), F32Round(3, 4)}

\* Arguments of SetSensitivity (volts per degree per second).
Sensitivities == {Rat(1, 10000)}

\* Arguments of SetDeadband (volts).
Deadbands == {F32Round(1, 2), F32Round(-3, 4096)}

\* Oversample depths the owner of a shared channel may configure.
OwnerOversampleBits == {2}

-----------------------------------------------------------------------------
(* The channel (AnalogInput): its registers, and its operations as effects  *)
(* on w = [chan, log].                                                      *)

NewChannel(kind, lsb) ==
  [kind |-> kind, lsb |-> lsb, averageBits |-> 0, oversampleBits |-> 0,
   sampleRate |-> 0, deadband |-> 0, center |-> 0, value |-> 0, count |-> 0,
   average |-> 0]

NoChannel == NewChannel("null", 0)

Entry(op, a, b) == [op |-> op, a |-> a, b |-> b]

Call(w, op, a, b) == [w EXCEPT !.log = Append(@, Entry(op, a, b))]

Wait(w, ms) == Call(w, "Wait", ms, 0)

IsAccumulatorChannel(w) == Call(w, "IsAccumulatorChannel", 0, 0)

SetAverageBits(w, bits) ==
  [Call(w, "SetAverageBits", bits, 0) EXCEPT !.chan.averageBits = bits]

SetOversampleBits(w, bits) ==
  [Call(w, "SetOversampleBits", bits, 0) EXCEPT !.chan.oversampleBits = bits]

SetSampleRate(w, rate) ==
  [Call(w, "SetSampleRate", rate, 0) EXCEPT !.chan.sampleRate = rate]

SetAccumulatorDeadband(w, deadband) ==
  [Call(w, "SetAccumulatorDeadband", deadband, 0) EXCEPT !.chan.deadband = deadband]

SetAccumulatorCenter(w, center) ==
  [Call(w, "SetAccumulatorCenter", center, 0) EXCEPT !.chan.center = center]

ResetAccumulator(w) ==
  [Call(w, "ResetAccumulator", 0, 0) EXCEPT !.chan.value = 0, !.chan.count = 0]

InitAccumulator(w) ==
  [Call(w, "InitAccumulator", 0, 0) EXCEPT
     !.chan.center = 0, !.chan.value = 0, !.chan.count = 0]

GetAccumulatorOutput(w) == Call(w, "GetAccumulatorOutput", w.chan.value, w.chan.count)

GetAverageValue(w) == Call(w, "GetAverageValue", 0, 0)

GetLSBWeight(w) == Call(w, "GetLSBWeight", 0, 0)

GetAverageBits(w) == Call(w, "GetAverageBits", 0, 0)

GetOversampleBits(w) == Call(w, "GetOversampleBits", 0, 0)

GetSampleRate(w) == Call(w, "GetSampleRate", 0, 0)

GetChannel(w) == Call(w, "GetChannel", 0, 0)

W == [chan |-> chan, log |-> log]

-----------------------------------------------------------------------------
(* The object *)

StatusIsFatal == fatal

\* SetDeadband's arithmetic without the oversampling factor
DeadbandCounts_NoOversampling(volts, lsb, oversampleBits) ==
  RatTrunc(RatDiv(RatMul(F32ToRat(volts), RatInt(Nano)), RatInt(lsb)))

\* int32_t deadband = volts * 1e9 / GetLSBWeight() * (1 << GetOversampleBits())
DeadbandCounts(volts, lsb, oversampleBits) ==
  RatTrunc(RatMul(RatDiv(RatMul(F32ToRat(volts), RatInt(Nano)), RatInt(lsb)),
                  RatInt(2^oversampleBits)))

\* The body of SetDeadband on an object whose status is not fatal.
SetDeadbandBody(w, volts) ==
  SetAccumulatorDeadband(GetOversampleBits(GetLSBWeight(w)),
                         DeadbandCounts(volts, w.chan.lsb, w.chan.oversampleBits))

\* InitGyro on an accumulator channel, up to its Wait(0.1).
InitGyroConfigure(w) ==
  Wait(SetSampleRate(SetOversampleBits(SetAverageBits(IsAccumulatorChannel(w),
                                                      kAverageBits),
                                       kOversampleBits),
                     kSamplesPerSecond * 2^(kAverageBits + kOversampleBits)),
       kSettleTime)

\* InitGyro after its Wait(0.1): the deadband, the usage report and the
\* LiveWindow registration, which read the channel number.
InitGyroFinish(w) == GetChannel(GetChannel(SetDeadbandBody(w, F32FromInt(0))))

\* Calibrate up to its Wait(kCalibrationSampleTime).
CalibrateStart(w) == Wait(InitAccumulator(w), kCalibrationSampleTime)

\* (float)value / (float)count
Mean(value, count) == F32Div(F32FromInt(value), F32FromInt(count))

\* the mean rounded to nearest with halves to even, as rint would
HalfUp_TiesToEven(mean) ==
  LET shifted == RatAdd(F32ToRat(mean), Rat(1, 2))
      t       == RatTrunc(shifted)
  IN  IF shifted.d = 1 /\ t % 2 = 1 THEN t - 1 ELSE t

\* mean + .5, truncated
HalfUp(mean) == RatTrunc(RatAdd(F32ToRat(mean), Rat(1, 2)))

\* (uint32_t)(mean + .5): defined when the truncated value is a uint32_t.
CenterOutcomes(mean) ==
  IF mean.cls = "finite" /\ HalfUp(mean) >= 0 THEN {HalfUp(mean)} ELSE Indeterminate

\* mean - (float)m_center
OffsetOf(mean, center) == F32Sub(mean, F32FromInt(center))

\* the reset issued before the center is pushed
PushCenter_ResetFirst(w, center) == SetAccumulatorCenter(ResetAccumulator(w), center)

\* SetAccumulatorCenter(m_center); ResetAccumulator();
PushCenter(w, center) == ResetAccumulator(SetAccumulatorCenter(w, center))

\* the product rounded to the nearest integer instead of truncated
CountCorrection_Rounded(count, offset) ==
  LET product == F32Mul(F32FromInt(count), offset)
  IN  IF product.cls = "finite"
      THEN {Sign(product.m) *
              ((2 * Abs(F32ToRat(product).n) + F32ToRat(product).d)
                 \div (2 * F32ToRat(product).d))}
      ELSE Indeterminate

\* (int64_t)((float)count * m_offset): defined when the product is finite.
CountCorrection(count, offset) ==
  LET product == F32Mul(F32FromInt(count), offset)
  IN  IF product.cls = "finite" THEN {F32Trunc(product)} ELSE Indeterminate

\* (float)(value * 1e-9 * lsbWeight * (1 << averageBits) / (sampleRate * volts))
ScaledAngle(value, ch, volts) ==
  F32FromRat(RatDiv(RatMul(RatMul(RatMul(RatInt(value), Rat(1, Nano)),
                                  RatInt(ch.lsb)),
                           RatInt(2^ch.averageBits)),
                    RatMul(RatInt(ch.sampleRate), volts)))

DZero == [cls |-> "finite", num |-> RatInt(0), scale |-> RatInt(1)]

\* (average - ((double)center + offset)) * 1e-9 * lsbWeight /
\*   ((1 << oversampleBits) * volts), kept as num * scale
ScaledRate(ch, center, offset, volts) ==
  IF offset.cls = "finite"
  THEN [cls   |-> "finite",
        num   |-> RatSub(RatInt(ch.average), RatAdd(RatInt(center), F32ToRat(offset))),
        scale |-> RatDiv(RatMul(Rat(1, Nano), RatInt(ch.lsb)),
                         RatMul(RatInt(2^ch.oversampleBits), volts))]
  ELSE [cls |-> "nan", num |-> RatInt(0), scale |-> RatInt(0)]

-----------------------------------------------------------------------------
(* Construction *)

Init ==
  /\ pc = "new"
  /\ args = [variant |-> "none", kind |-> "null", center |-> 0, offset |-> F32FromInt(0)]
  /\ m_analog = "null"
  /\ \E u \in Indeterminate :
       /\ m_center = u
       /\ m_offset = F32FromInt(u)
       /\ m_voltsPerDegreePerSecond = RatInt(u)
  /\ fatal = FALSE
  /\ chan = NoChannel
  /\ log = <<>>
  /\ nOps = 0
  /\ last = [op |-> "none", arg |-> 0, ret |-> 0]

\* channel == nullptr: wpi_setWPIError(NullParameter)
ConstructNull ==
  /\ m_analog' = "null"
  /\ fatal' = TRUE
  /\ pc' = "ready"
  /\ chan' = NoChannel
  /\ UNCHANGED <<m_center, m_offset, m_voltsPerDegreePerSecond, log>>

\* InitGyro refuses the channel: the error is set and m_analog cleared.  The
\* constructors without presets then call Calibrate, which returns at once.
\* The constructors with presets go on to m_analog->SetAccumulatorCenter on
\* the cleared reference; the call either ends the program or runs on.
ConstructRejected(variant, kind, lsb, center, offset) ==
  LET w == IsAccumulatorChannel([chan |-> NewChannel(kind, lsb), log |-> log])
  IN  /\ m_analog' = "null"
      /\ fatal' = TRUE
      /\ chan' = w.chan
      /\ UNCHANGED m_voltsPerDegreePerSecond
      /\ IF variant \in PresetVariants
         THEN /\ m_center' = center
              /\ m_offset' = offset
              /\ \E outcome \in {"crash", "continue"} :
                   IF outcome = "crash"
                   THEN /\ pc' = "crashed"
                        /\ log' = Call(w, "SetAccumulatorCenter", center, 0).log
                   ELSE /\ pc' = "ready"
                        /\ log' = Call(Call(w, "SetAccumulatorCenter", center, 0),
                                       "ResetAccumulator", 0, 0).log
         ELSE /\ pc' = "ready"
              /\ log' = w.log
              /\ UNCHANGED <<m_center, m_offset>>

\* InitGyro accepts the channel and runs up to its Wait(0.1).
ConstructAccepted(kind, lsb) ==
  LET w == InitGyroConfigure([chan |-> NewChannel(kind, lsb), log |-> log])
  IN  /\ m_analog' = "chan"
      /\ m_voltsPerDegreePerSecond' = kDefaultVoltsPerDegreePerSecond
      /\ pc' = "settle"
      /\ chan' = w.chan
      /\ log' = w.log
      /\ UNCHANGED <<m_center, m_offset, fatal>>

Construct(variant, kind, lsb, center, offset) ==
  /\ pc = "new"
  /\ args' = [variant |-> Delegate(variant), kind |-> kind, center |-> center, offset |-> offset]
  /\ UNCHANGED <<nOps, last>>
  /\ IF kind = "null" THEN ConstructNull
     ELSE IF kind = "plain" THEN ConstructRejected(variant, kind, lsb, center, offset)
     ELSE ConstructAccepted(kind, lsb)

\* the constructors with presets calibrating like the others
InitGyroSettled_AlwaysCalibrates ==
  /\ pc = "settle"
  /\ LET w2 == CalibrateStart(InitGyroFinish(W))
     IN  /\ chan' = w2.chan
         /\ log' = w2.log
         /\ pc' = "calibrate"
  /\ UNCHANGED <<args, gyro, nOps, last>>

\* The rest of InitGyro, then the rest of the constructor up to its next
\* Wait: Calibrate, or the presets.
InitGyroSettled ==
  /\ pc = "settle"
  /\ LET w == InitGyroFinish(W)
     IN  IF args.variant \in PresetVariants
         THEN LET w2 == PushCenter(w, args.center)
              IN  /\ m_center' = args.center
                  /\ m_offset' = args.offset
                  /\ chan' = w2.chan
                  /\ log' = w2.log
                  /\ pc' = "ready"
         ELSE LET w2 == CalibrateStart(w)
              IN  /\ chan' = w2.chan
                  /\ log' = w2.log
                  /\ pc' = "calibrate"
                  /\ UNCHANGED <<m_center, m_offset>>
  /\ UNCHANGED <<args, m_analog, m_voltsPerDegreePerSecond, fatal, nOps, last>>

\* The rest of Calibrate.
CalibrateSampled ==
  /\ pc = "calibrate"
  /\ LET w    == GetAccumulatorOutput(W)
         mean == Mean(chan.value, chan.count)
     IN  \E center \in CenterOutcomes(mean) :
           LET w2 == PushCenter(w, center)
           IN  /\ m_center' = center
               /\ m_offset' = OffsetOf(mean, center)
               /\ chan' = w2.chan
               /\ log' = w2.log
  /\ pc' = "ready"
  /\ UNCHANGED <<args, m_analog, m_voltsPerDegreePerSecond, fatal, nOps, last>>

-----------------------------------------------------------------------------
(* The channel's hardware and its other owner *)

\* The channel converts once more: the accumulator adds the distance of the
\* conversion from its center, unless that is inside the deadband, and counts.
Sample(raw) ==
  /\ pc \in {"calibrate", "ready"}
  /\ chan.kind = "accumulator"
  /\ chan.count < (IF pc = "calibrate" THEN MaxCalibrationSamples ELSE MaxSamples)
  /\ LET d == raw - chan.center
     IN  chan' = [chan EXCEPT !.value = @ + (IF Abs(d) < chan.deadband THEN 0 ELSE d),
                              !.count = @ + 1,
                              !.average = raw]
  /\ UNCHANGED <<pc, args, gyro, log, nOps, last>>

\* Whoever else holds the channel reconfigures its oversampling.
OwnerSetOversampleBits(bits) ==
  /\ pc = "ready"
  /\ chan.kind = "accumulator"
  /\ chan.oversampleBits # bits
  /\ chan' = [chan EXCEPT !.oversampleBits = bits]
  /\ UNCHANGED <<pc, args, gyro, log, nOps, last>>

-----------------------------------------------------------------------------
(* The public operations *)

Called(op, arg, ret) ==
  /\ pc = "ready"
  /\ nOps < MaxOps
  /\ nOps' = nOps + 1
  /\ last' = [op |-> op, arg |-> arg, ret |-> ret]
  /\ UNCHANGED <<pc, args>>

\* Reset without the status check
Reset_NoStatusCheck ==
  /\ Called("Reset", 0, 0)
  /\ LET w == ResetAccumulator(W)
     IN  chan' = w.chan /\ log' = w.log
  /\ UNCHANGED gyro

Reset ==
  /\ Called("Reset", 0, 0)
  /\ IF StatusIsFatal
     THEN UNCHANGED <<chan, log>>
     ELSE LET w == ResetAccumulator(W)
          IN  chan' = w.chan /\ log' = w.log
  /\ UNCHANGED gyro

GetAngle ==
  /\ IF StatusIsFatal
     THEN /\ Called("GetAngle", <<0, 0>>, F32FromInt(0))
          /\ UNCHANGED log
     ELSE \E correction \in CountCorrection(chan.count, m_offset) :
            /\ Called("GetAngle", <<chan.value, chan.count>>,
                      ScaledAngle(chan.value - correction, chan,
                                  m_voltsPerDegreePerSecond))
            /\ log' = GetSampleRate(GetAverageBits(GetLSBWeight(
                        GetAccumulatorOutput(W)))).log
  /\ UNCHANGED <<gyro, chan>>

GetRate ==
  /\ IF StatusIsFatal
     THEN /\ Called("GetRate", 0, DZero)
          /\ UNCHANGED log
     ELSE /\ Called("GetRate", 0,
                    ScaledRate(chan, m_center, m_offset, m_voltsPerDegreePerSecond))
          /\ log' = GetOversampleBits(GetLSBWeight(GetAverageValue(W))).log
  /\ UNCHANGED <<gyro, chan>>

GetOffset ==
  /\ Called("GetOffset", 0, m_offset)
  /\ UNCHANGED <<gyro, chan, log>>

GetCenter ==
  /\ Called("GetCenter", 0, m_center)
  /\ UNCHANGED <<gyro, chan, log>>

\* SetSensitivity with the status check of the other operations
SetSensitivity_StatusChecked(voltsPerDegreePerSecond) ==
  /\ Called("SetSensitivity", voltsPerDegreePerSecond, 0)
  /\ m_voltsPerDegreePerSecond' =
       (IF StatusIsFatal THEN m_voltsPerDegreePerSecond ELSE voltsPerDegreePerSecond)
  /\ UNCHANGED <<m_analog, m_center, m_offset, fatal, chan, log>>

SetSensitivity(voltsPerDegreePerSecond) ==
  /\ Called("SetSensitivity", voltsPerDegreePerSecond, 0)
  /\ m_voltsPerDegreePerSecond' = voltsPerDegreePerSecond
  /\ UNCHANGED <<m_analog, m_center, m_offset, fatal, chan, log>>

SetDeadband(volts) ==
  /\ Called("SetDeadband", volts, 0)
  /\ IF StatusIsFatal
     THEN UNCHANGED <<chan, log>>
     ELSE LET w == SetDeadbandBody(W, volts)
          IN  chan' = w.chan /\ log' = w.log
  /\ UNCHANGED gyro

-----------------------------------------------------------------------------

Next ==
  \/ \E variant \in Variants, lsb \in LsbWeights :
       \E kind \in ChannelKinds(variant) :
         IF variant \in PresetVariants
         THEN \E center \in PresetCenters, offset \in PresetOffsets :
                Construct(variant, kind, lsb, center, offset)
         ELSE Construct(variant, kind, lsb, 0, F32FromInt(0))
  \/ InitGyroSettled
  \/ CalibrateSampled
  \/ \E raw \in RawSamples : Sample(raw)
  \/ \E bits \in OwnerOversampleBits : OwnerSetOversampleBits(bits)
  \/ Reset
  \/ GetAngle
  \/ GetRate
  \/ GetOffset
  \/ GetCenter
  \/ \E v \in Sensitivities : SetSensitivity(v)
  \/ \E volts \in Deadbands : SetDeadband(volts)

Spec == Init /\ [][Next]_vars

-----------------------------------------------------------------------------
(* Reading the log *)

OpNames(s) == [i \in 1..Len(s) |-> s[i].op]

Has(op) == \E i \in 1..Len(log) : log[i].op = op

Waits == SelectSeq(log, LAMBDA entry : entry.op = "Wait")

\* The calls that act on the channel, and the waits: the log without the
\* reads of the channel's configuration.
Steps ==
  SelectSeq(log, LAMBDA entry :
    entry.op \notin {"GetLSBWeight", "GetOversampleBits", "GetAverageBits",
                     "GetSampleRate", "GetAverageValue", "GetChannel"})

\* The accumulator read-back of Calibrate follows the calibration wait.
IsReadback(i) ==
  /\ i > 1
  /\ log[i].op = "GetAccumulatorOutput"
  /\ log[i - 1] = Entry("Wait", kCalibrationSampleTime, 0)

Readback == log[CHOOSE i \in 1..Len(log) : IsReadback(i)]

Calibrated == \E i \in 1..Len(log) : IsReadback(i)

\* A step of the public operation op.
Calls(op) == nOps' = nOps + 1 /\ last'.op = op

Valid == pc = "ready" /\ ~fatal

FZero == F32FromInt(0)

-----------------------------------------------------------------------------
(* C1: an object constructed with a null channel reference is invalid and  *)
(* stays invalid whatever is called on it: GetAngle returns 0.0f, GetRate  *)
(* returns 0.0, and no call at all reaches a channel and no Wait runs,     *)
(* neither in the constructor nor in Reset or SetDeadband.                 *)
C1_NullChannelFailSilent ==
  (pc # "new" /\ args.kind = "null") =>
    /\ pc = "ready"
    /\ fatal
    /\ m_analog = "null"
    /\ log = <<>>
    /\ chan = NoChannel
    /\ (last.op = "GetAngle" => last.ret = FZero)
    /\ (last.op = "GetRate" => last.ret = DZero)

C1_Witness ==
  /\ args.kind = "null"
  /\ nOps = 2
  /\ last.op = "GetAngle"
  /\ last.ret = FZero
  /\ fatal

(* C2 as claimed: after any constructor is given a channel that is not an  *)
(* accumulator channel, the object is invalid, its channel reference is    *)
(* cleared and the capability check is the last call ever made on a        *)
(* channel.                                                                *)
C2_RejectedChannelNeverUsed ==
  (pc # "new" /\ args.kind = "plain") =>
    /\ pc = "ready"
    /\ fatal
    /\ m_analog = "null"
    /\ OpNames(log) = <<"IsAccumulatorChannel">>

(* C3 as claimed: a calibration that reads back a sample count of zero     *)
(* leaves the object invalid, with no bias taken from a quotient by zero.  *)
C3_ZeroCountIsFatal ==
  (pc = "ready" /\ Calibrated /\ Readback.b = 0) =>
    /\ fatal
    /\ m_offset.cls = "finite"

(* C4: after a calibration that read back (value, count) with value >= 0   *)
(* and count > 0, with m the binary32 quotient value/count: center is      *)
(* floor(m + 1/2), that is center - 1/2 <= m < center + 1/2 (a mean of     *)
(* 1062.5 gives 1063, not the even 1062); offset is exactly m - center; and   *)
(* -1/2 <= offset < 1/2.                                                   *)
C4_CenterHalfUpOffsetExact ==
  (pc = "ready" /\ Calibrated /\ Readback.a >= 0 /\ Readback.b > 0) =>
    LET m == F32Round(Readback.a, Readback.b)
        k == IF m.e < 0 THEN -m.e ELSE 0
        \* m = mm / 2^k
        mm == IF m.e < 0 THEN m.m ELSE m.m * 2^m.e
    IN  /\ (2 * m_center - 1) * 2^k <= 2 * mm
        /\ 2 * mm < (2 * m_center + 1) * 2^k
        /\ m_offset = F32Norm(mm - m_center * 2^k, -k)
        /\ m_offset.cls = "finite"
        /\ IF m_offset.e < 0
           THEN /\ -(2^(-m_offset.e - 1)) <= m_offset.m
                /\ m_offset.m < 2^(-m_offset.e - 1)
           ELSE m_offset.m = 0
        /\ (Readback.a = 2125 /\ Readback.b = 2 => m_center = 1063)

C4_Witness ==
  /\ pc = "ready"
  /\ Calibrated
  /\ Readback.a = 2125
  /\ Readback.b = 2
  /\ m_center = 1063
  /\ m_offset = F32Round(-1, 2)

PresetOnAccumulator ==
  pc = "ready" /\ args.variant \in PresetVariants /\ args.kind = "accumulator"

PresetKept ==
  /\ ~Has("InitAccumulator")
  /\ (nOps = 0 => ~Has("GetAccumulatorOutput"))
  /\ m_center = args.center
  /\ m_offset = args.offset
  /\ (last.op = "GetCenter" => last.ret = args.center)
  /\ (last.op = "GetOffset" => last.ret = args.offset)

(* C5 as claimed: a constructor with presets on an accumulator channel     *)
(* runs no step of Calibrate and no Wait of any duration, and GetCenter    *)
(* and GetOffset then return the presets.                                  *)
C5_PresetNoWait == PresetOnAccumulator => (PresetKept /\ Waits = <<>>)

(* C5 as amended: a constructor with presets on an accumulator channel     *)
(* runs no step of Calibrate and not the calibration wait; the one Wait it *)
(* runs is the 0.1 s settle wait of InitGyro; GetCenter and GetOffset then *)
(* return the presets.                                                     *)
C5_PresetOnlySettleWait ==
  PresetOnAccumulator => (PresetKept /\ Waits = <<Entry("Wait", kSettleTime, 0)>>)

C5_Witness ==
  /\ PresetOnAccumulator
  /\ args.center = 100
  /\ args.offset = F32Round(1, 4)
  /\ last.op = "GetOffset"
  /\ last.ret = F32Round(1, 4)
  /\ m_center = 100

(* C6 as claimed: on a valid object Reset changes the accumulator and      *)
(* nothing else (center, offset, sensitivity and the channel's other       *)
(* registers keep their values), and a GetAngle that follows it with no    *)
(* conversion counted in between returns 0.                                *)
C6_ResetKeepsBiasAngleZero ==
  [][ /\ (Valid /\ Calls("Reset")) =>
           /\ UNCHANGED gyro
           /\ chan' = [chan EXCEPT !.value = 0, !.count = 0]
      /\ (Valid /\ last.op = "Reset" /\ chan.count = 0 /\ Calls("GetAngle")) =>
           last'.ret = FZero
    ]_vars

(* C7 as claimed: on an invalid object SetSensitivity leaves the stored    *)
(* sensitivity as it was.                                                  *)
C7_InvalidSetSensitivityNoOp ==
  [][ (fatal /\ Calls("SetSensitivity")) =>
        m_voltsPerDegreePerSecond' = m_voltsPerDegreePerSecond ]_vars

(* C7 as amended: SetSensitivity(v) does not look at the status: on every  *)
(* object, invalid ones included, the stored sensitivity becomes v; it     *)
(* calls nothing on the channel and changes no other field.                *)
C7_SetSensitivityAlwaysStores ==
  [][ Calls("SetSensitivity") =>
        /\ m_voltsPerDegreePerSecond' = last'.arg
        /\ UNCHANGED <<m_analog, m_center, m_offset, fatal, chan, log>> ]_vars

C7_Witness ==
  /\ fatal
  /\ last.op = "SetSensitivity"
  /\ m_voltsPerDegreePerSecond = last.arg
  /\ m_voltsPerDegreePerSecond = Rat(1, 10000)

\* volts * (1e9 / lsbWeight * 2^oversampleBits), as an integer: toward zero
DeadbandOf(volts, ch) ==
  RatTrunc(RatMul(F32ToRat(volts),
                  RatMul(Rat(Nano, ch.lsb), RatInt(2^ch.oversampleBits))))

(* C8: on a valid object SetDeadband(volts) reads the channel's LSB weight *)
(* and oversample bits and makes one SetAccumulatorDeadband call with      *)
(* volts * 1e9 / lsbWeight * 2^oversampleBits as an integer (2,000,000     *)
(* for 0.5 V, an LSB weight of 1000 and 2 oversample bits), changing       *)
(* nothing else; and InitGyro, when it accepts the channel, installs a     *)
(* deadband of 0.                                                          *)
C8_DeadbandCounts ==
  [][ /\ (Valid /\ Calls("SetDeadband")) =>
           LET counts == DeadbandOf(last'.arg, chan)
           IN  /\ log' = log \o <<Entry("GetLSBWeight", 0, 0),
                                  Entry("GetOversampleBits", 0, 0),
                                  Entry("SetAccumulatorDeadband", counts, 0)>>
               /\ chan' = [chan EXCEPT !.deadband = counts]
               /\ UNCHANGED gyro
               /\ (/\ last'.arg = F32Round(1, 2)
                   /\ chan.lsb = 1000
                   /\ chan.oversampleBits = 2) => chan'.deadband = 2000000
      /\ (pc = "settle" /\ pc' # "settle") =>
           /\ chan'.deadband = 0
           /\ Entry("SetAccumulatorDeadband", 0, 0) \in
                {log'[i] : i \in Len(log) + 1 .. Len(log')}
    ]_vars

C8_Witness ==
  /\ Valid
  /\ last.op = "SetDeadband"
  /\ last.arg = F32Round(1, 2)
  /\ chan.lsb = 1000
  /\ chan.oversampleBits = 2
  /\ chan.deadband = 2000000
  /\ log[Len(log)] = Entry("SetAccumulatorDeadband", 2000000, 0)

\* count * offset, exactly
ExactProduct(count, offset) == RatMul(RatInt(count), F32ToRat(offset))

\* the integer nearest to a rational, halves away from zero
RatNearest(a) == Sign(a.n) * ((2 * Abs(a.n) + a.d) \div (2 * a.d))

\* value * 1e-9 * lsbWeight * 2^averageBits / (sampleRate * sensitivity), as
\* a float: linear in value, never folded into [0, 360)
Degrees(value) ==
  F32FromRat(RatMul(RatInt(value),
                    RatDiv(Rat(chan.lsb * 2^chan.averageBits, Nano),
                           RatMul(RatInt(chan.sampleRate),
                                  m_voltsPerDegreePerSecond))))

AngleRead == Valid /\ last.op = "GetAngle"

AtLeast(x, k) ==
  /\ x.cls = "finite"
  /\ x.m > 0
  /\ (x.e >= 0 \/ (x.e >= -20 /\ x.m >= k * 2^(-x.e)))

CalibratingConstruction ==
  <<"IsAccumulatorChannel", "SetAverageBits", "SetOversampleBits", "SetSampleRate",
    "Wait", "SetAccumulatorDeadband", "InitAccumulator", "Wait",
    "GetAccumulatorOutput", "SetAccumulatorCenter", "ResetAccumulator">>

(* C10: a construction without presets on an accumulator channel makes its *)
(* calls in this order: capability check, average bits, oversample bits,   *)
(* sample rate, the settle wait, deadband 0, InitAccumulator, the          *)
(* calibration wait, one read-back, SetAccumulatorCenter(center),          *)
(* ResetAccumulator; no reset comes before the center is pushed; and once  *)
(* constructed the channel's center register equals GetCenter().           *)
C10_ConstructionOrder ==
  (args.variant = "shared" /\ args.kind = "accumulator") =>
    LET n == CASE pc = "settle" -> 5
               [] pc = "calibrate" -> 8
               [] OTHER -> 11
    IN  /\ Len(Steps) >= n
        /\ SubSeq(OpNames(Steps), 1, n) = SubSeq(CalibratingConstruction, 1, n)
        /\ Steps[5] = Entry("Wait", kSettleTime, 0)
        /\ pc # "settle" =>
             /\ Steps[6] = Entry("SetAccumulatorDeadband", 0, 0)
             /\ Steps[8] = Entry("Wait", kCalibrationSampleTime, 0)
        /\ pc = "ready" =>
             /\ Steps[10] = Entry("SetAccumulatorCenter", m_center, 0)
             /\ chan.center = m_center
             /\ (last.op = "GetCenter" => last.ret = chan.center)

C10_Witness ==
  /\ pc = "ready"
  /\ args.variant = "shared"
  /\ args.kind = "accumulator"
  /\ Calibrated
  /\ Readback.b = 2
  /\ m_center = 1063
  /\ chan.center = 1063
  /\ last.op = "GetCenter"

=============================================================================
